---- MODULE Spec2Model ----
(***************************************************************************)
(* Motion-based single-anchor localization (src/localization.py).          *)
(*                                                                         *)
(* MotionBasedLocalization.run is modelled as a state machine with one     *)
(* action per path through one iteration of its loop.  Lengths are kept as *)
(* exact integers: a position is stored in units of 1/Unit, a velocity in  *)
(* raw units, and every nonzero velocity of the model has norm 5, so that  *)
(* every cosine, sine and square root the code computes is exact here.     *)
(* A float is a record: k = "num" for a number, k = "nan" for NaN.         *)
(*                                                                         *)
(* The range and its rate are those of the branch is_noisy = False; the    *)
(* other branch hands both to scipy.signal.savgol_filter.  numpy's error   *)
(* state is part of the configuration: the default (a division by zero     *)
(* gives inf or NaN) or np.seterr(all='raise') as the script sets it (the  *)
(* division raises FloatingPointError, which ends run).                    *)
(***************************************************************************)
EXTENDS Integers, Sequences, FiniteSets, TLC

\* ------------------------------------------------------------------ bounds
\* count: the number of steps of a run (step 0 is the construction).
MaxCount == 24
\* The measurement stream holds still during steps 2..QuietSteps.
QuietSteps == 19
\* The measurement stream changes at most this often in a run.
MaxChanges == 2

\* ------------------------------------------------------- program constants
\* i > 20 (warm-up count of the trigger)
WarmUp == 20
\* similarity < .97, as the fraction SimNum / SimDen
SimNum == 97
SimDen == 100
\* window_length = 5
window_length == 5
\* dt = .5, as 1 / DtDen
DtDen == 2

\* Positions are integers in units of 1/Unit: dt * |v|^2 = 25/2 needs 50.
Unit == DtDen * (5 * 5)

\* ------------------------------------------------------------------ values
Vec(x, y) == [k |-> "num", x |-> x, y |-> y]
\* numpy stores None in a float array as NaN
NaNVec == [k |-> "nan", x |-> 0, y |-> 0]
\* Python's None (find_max_similarity's initial max_position)
NoneVal == [k |-> "none", x |-> 0, y |-> 0]
Zero2 == Vec(0, 0)

IsNum(a) == a.k = "num"

\* a float: a fraction n/d with d > 0, or NaN
Frac(n, d) == [k |-> "num", n |-> n, d |-> d]
FNaN == [k |-> "nan", n |-> 0, d |-> 1]
\* p < q on floats: every comparison with NaN is False
FLess(p, q) == p.k = "num" /\ q.k = "num" /\ p.n * q.d < q.n * p.d

Max(a, b) == IF a >= b THEN a ELSE b
Min(a, b) == IF a <= b THEN a ELSE b

RECURSIVE SqrtSearch(_, _, _)
SqrtSearch(n, lo, hi) ==
    IF lo >= hi THEN lo
    ELSE LET mid == (lo + hi + 1) \div 2
         IN  IF mid * mid <= n THEN SqrtSearch(n, mid, hi)
             ELSE SqrtSearch(n, lo, mid - 1)
\* the square root of n (exact on every value the model takes it of)
ISqrt(n) == SqrtSearch(n, 0, Min(n, 40000))

Dot(a, b) == a.x * b.x + a.y * b.y
\* np.linalg.norm
Norm(a) == ISqrt(Dot(a, a))

\* ------------------------------------------------------------------- Util
\* Util.cos_similarity: dot product over the product of the magnitudes.
\* 0/0 is NaN (numpy's default error state); a NaN operand gives NaN.
cos_similarity(a, b) ==
    IF ~IsNum(a) \/ ~IsNum(b) THEN FNaN
    ELSE IF Norm(a) * Norm(b) = 0 THEN FNaN
    ELSE Frac(Dot(a, b), Norm(a) * Norm(b))

\* Under np.seterr(all='raise') the division 0/0 of cos_similarity raises
\* FloatingPointError instead of returning NaN.
CosSimilarityRaises(a, b) == IsNum(a) /\ IsNum(b) /\ Norm(a) * Norm(b) = 0

\* Util.clamp(x, lo, hi) on integers
clamp(x, lo, hi) == Max(lo, Min(x, hi))

\* np.mean(estimated_positions[window], axis=0): the sum and the number of
\* rows (the mean is sum / n); NaN when a row is NaN.  A negative index
\* counts from the end of the array.
RECURSIVE SumRows(_, _)
SumRows(est, idxs) ==
    IF idxs = <<>> THEN Zero2
    ELSE LET h == est[IF Head(idxs) < 0 THEN MaxCount + Head(idxs) ELSE Head(idxs)]
             t == SumRows(est, Tail(idxs))
         IN  IF ~IsNum(h) \/ ~IsNum(t) THEN NaNVec
             ELSE Vec(h.x + t.x, h.y + t.y)

\* squared distance from candidate m to the mean sum/n, times n^2
DistSq(sum, n, m) ==
    IF ~IsNum(sum) \/ ~IsNum(m) THEN FNaN
    ELSE Frac((m.x * n - sum.x) * (m.x * n - sum.x)
              + (m.y * n - sum.y) * (m.y * n - sum.y), 1)

\* Util.closest_to(prev_pos, [m1, m2]) with prev_pos = sum / n: the
\* candidate nearer to prev_pos; the first one on a tie or a NaN distance.
closest_to(sum, n, m1, m2) ==
    IF FLess(DistSq(sum, n, m2), DistSq(sum, n, m1)) THEN m2 ELSE m1

\* ------------------------------------------- calculate_possible_positions
\* dr = (prev_rs[-1] - prev_rs[-2]) / self.dt
RangeRate(prev_rs) == (prev_rs[Len(prev_rs)] - prev_rs[Len(prev_rs) - 1]) * DtDen
\* r = prev_rs[-1]
FilteredRange(prev_rs) == prev_rs[Len(prev_rs)]

\* alpha = np.arctan2(v[1], v[0]) as (cos alpha, sin alpha) = (c, s) / d;
\* arctan2(0, 0) is 0.
Alpha(v) ==
    IF Norm(v) = 0 THEN [c |-> 1, s |-> 0, d |-> 1]
    ELSE [c |-> v.x, s |-> v.y, d |-> Norm(v)]

\* theta = np.arccos(Util.clamp(dr / s, -1, 1)) as (cos theta, sin theta) =
\* (c, s) / d, with sin theta >= 0 since theta is in [0, pi].  With s = 0
\* the quotient is +inf, -inf or NaN (numpy's default error state): the
\* clamp maps the infinities to 1 and -1 and leaves NaN.
Theta(dr, s) ==
    IF s = 0
    THEN IF dr > 0 THEN [k |-> "num", c |-> 1, s |-> 0, d |-> 1]
         ELSE IF dr < 0 THEN [k |-> "num", c |-> -1, s |-> 0, d |-> 1]
         ELSE [k |-> "nan", c |-> 0, s |-> 0, d |-> 1]
    ELSE LET c == clamp(dr, -s, s)
         IN  [k |-> "num", c |-> c, s |-> ISqrt(s * s - c * c), d |-> s]

\* [r * np.cos(alpha + theta), r * np.sin(alpha + theta)] + anchor.pos
PosPlus(r, a, t, anchor) ==
    IF t.k = "nan" THEN NaNVec
    ELSE Vec((r * Unit * (a.c * t.c - a.s * t.s)) \div (a.d * t.d) + anchor.x,
             (r * Unit * (a.s * t.c + a.c * t.s)) \div (a.d * t.d) + anchor.y)

PosMinus_SignSlip(r, a, t, anchor) ==
    IF t.k = "nan" THEN NaNVec
    ELSE Vec((r * Unit * (a.c * t.c + a.s * t.s)) \div (a.d * t.d) + anchor.x,
             (r * Unit * (a.s * t.c + a.c * t.s)) \div (a.d * t.d) + anchor.y)

\* [r * np.cos(alpha - theta), r * np.sin(alpha - theta)] + anchor.pos
PosMinus(r, a, t, anchor) ==
    IF t.k = "nan" THEN NaNVec
    ELSE Vec((r * Unit * (a.c * t.c + a.s * t.s)) \div (a.d * t.d) + anchor.x,
             (r * Unit * (a.s * t.c - a.c * t.s)) \div (a.d * t.d) + anchor.y)

\* the candidate pair [pos1, pos2] for range r, range rate dr, velocity v
calculate_possible_positions(r, dr, v, anchor) ==
    << PosPlus(r, Alpha(v), Theta(dr, Norm(v)), anchor),
       PosMinus(r, Alpha(v), Theta(dr, Norm(v)), anchor) >>

\* Under np.seterr(all='raise') the division dr / s by s = 0 raises
\* FloatingPointError.
DivisionRaises(v) == Norm(v) = 0

\* ---------------------------------------------------- find_max_similarity
\* the loop  for pos in new_positions: for prev in prev_positions  over the
\* remaining (pos, prev) pairs, from the running max_sim and max_position
RECURSIVE MaxSimLoop(_, _, _)
MaxSimLoop(pairs, max_sim, max_position) ==
    IF pairs = <<>> THEN max_position
    ELSE LET pos == Head(pairs)[1]
             prev == Head(pairs)[2]
             sim == cos_similarity(pos, prev)
         IN  IF FLess(max_sim, sim)
             THEN MaxSimLoop(Tail(pairs), sim, pos)
             ELSE MaxSimLoop(Tail(pairs), max_sim, max_position)

\* the (pos, prev) pairs in the order the nested loops visit them
LoopPairs(prev_positions, new_positions) ==
    << <<new_positions[1], prev_positions[1]>>,
       <<new_positions[1], prev_positions[2]>>,
       <<new_positions[2], prev_positions[1]>>,
       <<new_positions[2], prev_positions[2]>> >>

\* max_sim = -2; max_position = None; ...; return max_position
find_max_similarity(prev_positions, new_positions) ==
    MaxSimLoop(LoopPairs(prev_positions, new_positions), Frac(-2, 1), NoneVal)

\* Under np.seterr(all='raise'), find_max_similarity raises when one of its
\* four cos_similarity calls divides 0 by 0.
FindMaxRaises(prev_positions, new_positions) ==
    \E n \in 1..4 :
        CosSimilarityRaises(LoopPairs(prev_positions, new_positions)[n][1],
                            LoopPairs(prev_positions, new_positions)[n][2])

\* estimated_positions[i] = max_pos: numpy stores None as NaN
Stored(p) == IF p.k = "none" THEN NaNVec ELSE p

\* ----------------------------------------------------------- the trigger
\* similarity < .97 and i > 20
Trigger(similarity, step) ==
    FLess(similarity, Frac(SimNum, SimDen)) /\ step > WarmUp

Window_NoFloor(idx, step) ==
    [n \in 1..window_length |-> step - window_length + n - 1]

\* window = list(range(max(self.idx_loc, i-window_length), i))
Window(idx, step) ==
    LET lo == Max(idx, step - window_length)
    IN  [n \in 1..Max(0, step - lo) |-> lo + n - 1]

\* ------------------------------------------------------------- the filter
\* the filter state x = [position, velocity]; filterpy starts it at zeros
KfInitial == [pos |-> Zero2, vel |-> Zero2]

\* kf.predict(): x = F x with the constant-velocity F of step dt
kf_predict(x) ==
    IF ~IsNum(x.pos) \/ ~IsNum(x.vel) THEN [pos |-> NaNVec, vel |-> x.vel]
    ELSE [pos |-> Vec(x.pos.x + x.vel.x * (Unit \div DtDen),
                      x.pos.y + x.vel.y * (Unit \div DtDen)),
          vel |-> x.vel]

\* kf.update(z) with z = [position, velocity] observed directly (H = I):
\* x moves from the prediction towards z; the gain stands at 1/2.
kf_update(x, zpos, zvel) ==
    IF ~IsNum(x.pos) \/ ~IsNum(zpos) THEN [pos |-> NaNVec, vel |-> NaNVec]
    ELSE [pos |-> Vec((x.pos.x + zpos.x) \div 2, (x.pos.y + zpos.y) \div 2),
          vel |-> IF IsNum(x.vel)
                  THEN Vec((x.vel.x + zvel.x) \div 2, (x.vel.y + zvel.y) \div 2)
                  ELSE NaNVec]

\* ------------------------------------------------------------------ state
VARIABLES
    kf,                   \* a filter is attached (self.kf is not None)
    known_initial_pos,    \* the constructor's known_initial_pos
    np_raise,             \* np.seterr(all='raise') is in force
    measured_r,           \* robot_system.measured_r
    measured_v,           \* robot_system.measured_v
    changes,              \* how often the measurement stream has changed
    i,                    \* the loop index of run: the next step
    pc,                   \* "loop", "raised" (an exception left run), "done"
    localized,            \* self.localized
    idx_loc,              \* self.idx_loc
    prev_v,               \* self.prev_v
    measured_positions,   \* self.measured_positions
    chosen_measurements,  \* self.chosen_measurements
    estimated_positions,  \* self.estimated_positions
    filtered_r,           \* self.filtered_r
    filtered_dr,          \* self.filtered_dr
    kf_x,                 \* self.kf.x
    kf_calls,             \* history: the filter calls of the last iteration
    kf_x_set,             \* history: run has assigned kf.x
    was_localized,        \* history: self.localized before the last iteration
    window,               \* history: the window of the last Localized iteration
    written,              \* history: the array rows run or __init__ assigned
    probe                 \* inputs and result of one candidate computation

vars == << kf, known_initial_pos, np_raise, measured_r, measured_v, changes,
           i, pc, localized, idx_loc, prev_v, measured_positions,
           chosen_measurements, estimated_positions, filtered_r, filtered_dr,
           kf_x, kf_calls, kf_x_set, was_localized, window, written, probe >>

\* self.count
count == MaxCount
Steps == 0..(count - 1)

\* the measurements the robot system can deliver
Ranges == {0, 2, 4}
Velocities == {Vec(5, 0), Vec(3, 4), Vec(0, 0)}

\* robot_system.anchor_robot.pos: the anchor rests at the origin
AnchorPos == Zero2

NoProbe == [phase |-> "off", r |-> 0, dr |-> 0, v |-> Zero2, anchor |-> Zero2,
            cand |-> <<Zero2, Zero2>>]

\* BaseLocalization.__init__ and MotionBasedLocalization.__init__
Init ==
    /\ kf \in BOOLEAN
    /\ known_initial_pos \in BOOLEAN
    /\ np_raise \in BOOLEAN
    /\ \E r0 \in Ranges, v0 \in Velocities :
        /\ measured_r = <<r0>>
        /\ measured_v = <<v0>>
        /\ prev_v = v0
        /\ filtered_r = <<r0>>
        /\ estimated_positions =
              [j \in Steps |-> IF j = 0 /\ known_initial_pos
                               THEN Vec(Unit * r0, 0) ELSE Zero2]
    /\ changes = 0
    /\ i = 1
    /\ pc = "loop"
    /\ localized = known_initial_pos
    /\ idx_loc = 0
    /\ measured_positions =
          [j \in Steps |-> IF j = 0 THEN <<NaNVec, NaNVec>> ELSE <<Zero2, Zero2>>]
    /\ chosen_measurements = [j \in Steps |-> IF j = 0 THEN NaNVec ELSE Zero2]
    /\ filtered_dr = <<>>
    /\ kf_x = KfInitial
    /\ kf_calls = <<>>
    /\ kf_x_set = FALSE
    /\ was_localized = known_initial_pos
    /\ window = <<>>
    /\ written = [meas |-> {0}, chosen |-> {0},
                  est |-> IF known_initial_pos THEN {0} ELSE {}]
    /\ probe = NoProbe

\* ---------------------------------------------------------- measurements
\* robot_system.update(), get_r_measurement(), get_v_measurement(): the
\* measurement of this step is the last one again, or a new one
Deliverable(r, v) ==
    \/ r = measured_r[Len(measured_r)] /\ v = measured_v[Len(measured_v)]
    \/ changes < MaxChanges /\ (i = 1 \/ i > QuietSteps)

\* the candidate pair of this step
Candidates(r, v) ==
    calculate_possible_positions(FilteredRange(Append(measured_r, r)),
                                 RangeRate(Append(measured_r, r)), v, AnchorPos)

\* what every iteration does before its first branch: the two measurements,
\* self.filtered_r.append(r), self.filtered_dr.append(dr)
Measure(r, v) ==
    /\ measured_r' = Append(measured_r, r)
    /\ measured_v' = Append(measured_v, v)
    /\ changes' = IF r = measured_r[Len(measured_r)] /\ v = measured_v[Len(measured_v)]
                  THEN changes ELSE changes + 1
    /\ filtered_r' = Append(filtered_r, FilteredRange(Append(measured_r, r)))
    /\ filtered_dr' = Append(filtered_dr, RangeRate(Append(measured_r, r)))
    /\ UNCHANGED << kf, known_initial_pos, np_raise, probe >>

localized_after_Reevaluated(loc, trig) == trig

\* if self.localized: ... else: if <trigger>: self.localized = True
localized_after(loc, trig) == IF loc THEN TRUE ELSE trig

\* the value of self.localized after this iteration's branch
LocalizedNext(v) ==
    localized_after(localized, Trigger(cos_similarity(prev_v, v), i))

InLoop == pc = "loop" /\ i < count

\* ------------------------------------------------------------ iterations
\* The division dr / s of calculate_possible_positions raises: run ends
\* before anything of this step is stored.
RaiseDivision ==
    \E r \in Ranges, v \in Velocities :
        /\ InLoop /\ Deliverable(r, v)
        /\ np_raise /\ DivisionRaises(v)
        /\ Measure(r, v)
        /\ pc' = "raised"
        /\ kf_calls' = <<>>
        /\ was_localized' = localized
        /\ UNCHANGED << i, localized, idx_loc, prev_v, measured_positions,
                        chosen_measurements, estimated_positions, kf_x,
                        kf_x_set, window, written >>

\* An iteration of the branch  if self.localized:
StepLocalized ==
    \E r \in Ranges, v \in Velocities :
        /\ InLoop /\ Deliverable(r, v)
        /\ ~(np_raise /\ DivisionRaises(v))
        /\ localized
        /\ Measure(r, v)
        /\ LET cand == Candidates(r, v)
               win == Window(idx_loc, i)
               prev_pos == SumRows(estimated_positions, win)
               closest_measurement == closest_to(prev_pos, Len(win), cand[1], cand[2])
               x == kf_update(kf_predict(kf_x), closest_measurement, v)
           IN  /\ measured_positions' = [measured_positions EXCEPT ![i] = cand]
               /\ window' = win
               /\ chosen_measurements' =
                     [chosen_measurements EXCEPT ![i] = closest_measurement]
               /\ kf_x' = IF kf THEN x ELSE kf_x
               /\ kf_calls' = IF kf THEN <<"predict", "update">> ELSE <<>>
               /\ estimated_positions' =
                     [estimated_positions EXCEPT
                         ![i] = IF kf THEN x.pos ELSE closest_measurement]
        /\ written' = [meas |-> written.meas \cup {i},
                       chosen |-> written.chosen \cup {i},
                       est |-> written.est \cup {i}]
        /\ localized' = LocalizedNext(v)
        /\ was_localized' = localized
        /\ prev_v' = v
        /\ i' = i + 1
        /\ UNCHANGED << pc, idx_loc, kf_x_set >>

\* An iteration of the else branch whose trigger condition is False.
StepUnlocalized ==
    \E r \in Ranges, v \in Velocities :
        /\ InLoop /\ Deliverable(r, v)
        /\ ~(np_raise /\ (DivisionRaises(v) \/ CosSimilarityRaises(prev_v, v)))
        /\ ~localized
        /\ ~Trigger(cos_similarity(prev_v, v), i)
        /\ Measure(r, v)
        /\ measured_positions' = [measured_positions EXCEPT ![i] = Candidates(r, v)]
        /\ written' = [written EXCEPT !.meas = @ \cup {i}]
        /\ localized' = LocalizedNext(v)
        /\ was_localized' = localized
        /\ kf_calls' = <<>>
        /\ prev_v' = v
        /\ i' = i + 1
        /\ UNCHANGED << pc, idx_loc, chosen_measurements, estimated_positions,
                        kf_x, kf_x_set, window >>

\* Util.cos_similarity(self.prev_v, measured_v) raises: run ends after the
\* candidate pair of this step is stored.
RaiseSimilarity ==
    \E r \in Ranges, v \in Velocities :
        /\ InLoop /\ Deliverable(r, v)
        /\ np_raise /\ ~DivisionRaises(v)
        /\ ~localized
        /\ CosSimilarityRaises(prev_v, v)
        /\ Measure(r, v)
        /\ measured_positions' = [measured_positions EXCEPT ![i] = Candidates(r, v)]
        /\ written' = [written EXCEPT !.meas = @ \cup {i}]
        /\ pc' = "raised"
        /\ kf_calls' = <<>>
        /\ was_localized' = localized
        /\ UNCHANGED << i, localized, idx_loc, prev_v, chosen_measurements,
                        estimated_positions, kf_x, kf_x_set, window >>

\* the transition's choice: find_max_similarity([prev1, prev2],
\* [measurement1, measurement2]) with prev = self.measured_positions[i-1]
MaxPos(r, v) == find_max_similarity(measured_positions[i - 1], Candidates(r, v))

\* the trigger condition holds in the else branch
Triggered(v) ==
    /\ ~localized
    /\ Trigger(cos_similarity(prev_v, v), i)

\* The transition: an iteration of the else branch whose trigger condition is
\* True and that runs to its end.
StepTransition ==
    \E r \in Ranges, v \in Velocities :
        /\ InLoop /\ Deliverable(r, v)
        /\ Triggered(v)
        /\ ~(np_raise /\ FindMaxRaises(measured_positions[i - 1], Candidates(r, v)))
        /\ ~(kf /\ MaxPos(r, v) = NoneVal)
        /\ Measure(r, v)
        /\ measured_positions' = [measured_positions EXCEPT ![i] = Candidates(r, v)]
        /\ localized' = LocalizedNext(v)
        /\ estimated_positions' =
              [estimated_positions EXCEPT ![i] = Stored(MaxPos(r, v))]
        /\ kf_x' = IF kf THEN [pos |-> MaxPos(r, v), vel |-> v] ELSE kf_x
        /\ kf_x_set' = (kf \/ kf_x_set)
        /\ kf_calls' = IF kf THEN <<"assign">> ELSE <<>>
        /\ chosen_measurements' =
              [chosen_measurements EXCEPT ![i] = Stored(MaxPos(r, v))]
        /\ idx_loc' = i
        /\ written' = [meas |-> written.meas \cup {i},
                       chosen |-> written.chosen \cup {i},
                       est |-> written.est \cup {i}]
        /\ was_localized' = localized
        /\ prev_v' = v
        /\ i' = i + 1
        /\ UNCHANGED << pc, window >>

\* find_max_similarity raises in a cos_similarity call: run ends with
\* self.localized set and nothing else of the transition done.
RaiseFindMax ==
    \E r \in Ranges, v \in Velocities :
        /\ InLoop /\ Deliverable(r, v)
        /\ Triggered(v)
        /\ np_raise /\ FindMaxRaises(measured_positions[i - 1], Candidates(r, v))
        /\ Measure(r, v)
        /\ measured_positions' = [measured_positions EXCEPT ![i] = Candidates(r, v)]
        /\ written' = [written EXCEPT !.meas = @ \cup {i}]
        /\ localized' = LocalizedNext(v)
        /\ pc' = "raised"
        /\ kf_calls' = <<>>
        /\ was_localized' = localized
        /\ UNCHANGED << i, idx_loc, prev_v, chosen_measurements,
                        estimated_positions, kf_x, kf_x_set, window >>

\* find_max_similarity returns None and a filter is attached:
\* np.concatenate((None, measured_v)) raises ValueError, so run ends after
\* self.estimated_positions[i] = None and before kf.x, chosen_measurements[i]
\* and idx_loc are assigned.
RaiseConcatenate ==
    \E r \in Ranges, v \in Velocities :
        /\ InLoop /\ Deliverable(r, v)
        /\ Triggered(v)
        /\ ~np_raise
        /\ kf /\ MaxPos(r, v) = NoneVal
        /\ Measure(r, v)
        /\ measured_positions' = [measured_positions EXCEPT ![i] = Candidates(r, v)]
        /\ localized' = LocalizedNext(v)
        /\ estimated_positions' =
              [estimated_positions EXCEPT ![i] = Stored(MaxPos(r, v))]
        /\ written' = [written EXCEPT !.meas = @ \cup {i}, !.est = @ \cup {i}]
        /\ pc' = "raised"
        /\ kf_calls' = <<>>
        /\ was_localized' = localized
        /\ UNCHANGED << i, idx_loc, prev_v, chosen_measurements, kf_x,
                        kf_x_set, window >>

\* the loop is over: run returns
Finish ==
    /\ pc = "loop" /\ i = count
    /\ pc' = "done"
    /\ UNCHANGED << kf, known_initial_pos, np_raise, measured_r, measured_v,
                    changes, i, localized, idx_loc, prev_v, measured_positions,
                    chosen_measurements, estimated_positions, filtered_r,
                    filtered_dr, kf_x, kf_calls, kf_x_set, was_localized,
                    window, written, probe >>

Next ==
    \/ StepLocalized
    \/ StepUnlocalized
    \/ StepTransition
    \/ RaiseDivision
    \/ RaiseSimilarity
    \/ RaiseFindMax
    \/ RaiseConcatenate
    \/ Finish

Spec == Init /\ [][Next]_vars

\* ------------------------------------------ the candidate pair on its own
\* calculate_possible_positions applied to one drawn input: range r, range
\* rate dr, velocity v and anchor position (numpy's default error state).
ProbeRanges == {0, 1, 2, 3}
ProbeRates == {-6, -5, -4, -3, 0, 3, 4, 5, 6}
ProbeVelocities == {Vec(5, 0), Vec(3, 4), Vec(-4, 3), Vec(0, -5), Vec(-3, -4), Zero2}
ProbeAnchors == {Zero2, Vec(Unit, -2 * Unit), Vec(-3 * Unit, 0)}

InitProbe ==
    /\ kf = FALSE
    /\ known_initial_pos = FALSE
    /\ np_raise = FALSE
    /\ measured_r = <<0>>
    /\ measured_v = <<Zero2>>
    /\ prev_v = Zero2
    /\ filtered_r = <<0>>
    /\ filtered_dr = <<>>
    /\ estimated_positions = [j \in Steps |-> Zero2]
    /\ changes = 0
    /\ i = 1
    /\ pc = "probe"
    /\ localized = FALSE
    /\ idx_loc = 0
    /\ measured_positions =
          [j \in Steps |-> IF j = 0 THEN <<NaNVec, NaNVec>> ELSE <<Zero2, Zero2>>]
    /\ chosen_measurements = [j \in Steps |-> IF j = 0 THEN NaNVec ELSE Zero2]
    /\ kf_x = KfInitial
    /\ kf_calls = <<>>
    /\ kf_x_set = FALSE
    /\ was_localized = FALSE
    /\ window = <<>>
    /\ written = [meas |-> {0}, chosen |-> {0}, est |-> {}]
    /\ \E r \in ProbeRanges, dr \in ProbeRates, v \in ProbeVelocities,
          anchor \in ProbeAnchors :
          probe = [phase |-> "in", r |-> r, dr |-> dr, v |-> v,
                   anchor |-> anchor, cand |-> <<Zero2, Zero2>>]

ProbeCompute ==
    /\ pc = "probe" /\ probe.phase = "in"
    /\ probe' = [probe EXCEPT
                    !.phase = "out",
                    !.cand = calculate_possible_positions(probe.r, probe.dr,
                                                          probe.v, probe.anchor)]
    /\ UNCHANGED << kf, known_initial_pos, np_raise, measured_r, measured_v,
                    changes, i, pc, localized, idx_loc, prev_v,
                    measured_positions, chosen_measurements,
                    estimated_positions, filtered_r, filtered_dr, kf_x,
                    kf_calls, kf_x_set, was_localized, window, written >>

SpecProbe == InitProbe /\ [][ProbeCompute]_vars

\* ----------------------------------------------------------------- claims
\* at least one iteration has begun
Stepped == Len(measured_v) > 1
\* the step of the last iteration (measured_v[n + 1] is step n's velocity)
LastStep == Len(measured_v) - 1
\* the velocity measured at step n
VelocityAt(n) == measured_v[n + 1]
\* the steps, among those begun, that satisfy the trigger condition
TriggerSteps ==
    {n \in 1..LastStep :
        /\ n > WarmUp
        /\ FLess(cos_similarity(VelocityAt(n - 1), VelocityAt(n)),
                 Frac(SimNum, SimDen))}
Least(S) == CHOOSE n \in S : \A m \in S : n <= m
Undefined(p) == p.k # "num"

\* C1: once self.localized is True it is True after every later step of
\* run, however the run became Localized.
C1_LocalizedNeverReverts == [][localized => localized']_vars

\* C1 witness: a run localized by the trigger has taken two more steps, the
\* last of them with a new velocity.
C1_Witness ==
    /\ ~known_initial_pos /\ localized /\ was_localized
    /\ idx_loc > WarmUp /\ i = idx_loc + 3
    /\ VelocityAt(LastStep) # VelocityAt(LastStep - 1)

\* C2: without a known initial position the run is Localized exactly when a
\* step begun so far satisfies the trigger condition, and idx_loc is then
\* the least such step, now and in every later state.
C2_TransitionAtFirstTriggerStep ==
    ~known_initial_pos =>
        /\ localized <=> (TriggerSteps # {})
        /\ localized => idx_loc = Least(TriggerSteps)

\* C3: the window of a Localized step is range(max(idx_loc, i-5), i): not
\* empty, at most 5 long, within idx_loc..i-1, and over rows of
\* estimated_positions that have been written.
C3_WindowWithinTrack ==
    (Stepped /\ was_localized /\ pc # "raised") =>
        /\ Len(window) >= 1 /\ Len(window) <= window_length
        /\ \A n \in 1..Len(window) :
              /\ window[n] = Max(idx_loc, LastStep - window_length) + n - 1
              /\ idx_loc <= window[n] /\ window[n] < LastStep
              /\ window[n] \in written.est
        /\ window[Len(window)] = LastStep - 1

\* C3 witness: a Localized step after a transition whose window is cut off
\* at the localization index.
C3_Witness ==
    /\ Stepped /\ was_localized /\ pc = "loop"
    /\ idx_loc > WarmUp /\ LastStep = idx_loc + 2
    /\ window = <<idx_loc, idx_loc + 1>>

\* C4: with a filter and no known initial position, an Unlocalized step
\* calls nothing on the filter and leaves kf.x unassigned, the transition
\* step assigns kf.x once and calls nothing, and every later step calls
\* predict once and then update once.
C4_FilterSchedule ==
    (kf /\ ~known_initial_pos /\ Stepped) =>
        /\ (~was_localized /\ ~localized) => (kf_calls = <<>> /\ ~kf_x_set)
        /\ (~was_localized /\ localized) => kf_calls = <<"assign">>
        /\ was_localized => kf_calls = <<"predict", "update">>

\* C5: a run in which no step satisfies the trigger condition stays
\* Unlocalized, and every row of estimated_positions and
\* chosen_measurements before the localization index (every row, while
\* Unlocalized) is undefined.
C5_UndefinedBeforeLocalization ==
    pc = "done" =>
        /\ (~known_initial_pos /\ TriggerSteps = {}) => ~localized
        /\ \A j \in Steps :
              (~localized \/ j < idx_loc) =>
                  /\ Undefined(estimated_positions[j])
                  /\ Undefined(chosen_measurements[j])

\* C6: a step whose measured velocity has magnitude 0 records no candidate
\* pair, no chosen position and no estimate.
C6_ZeroVelocityRecordsNothing ==
    \A n \in 1..LastStep :
        Norm(VelocityAt(n)) = 0 =>
            n \notin written.meas /\ n \notin written.chosen /\ n \notin written.est

\* C7: in a run localized by the trigger, from idx_loc on: without a filter
\* the estimate is the chosen position; with a filter the estimate at
\* idx_loc is the chosen position and the estimate of a later step is the
\* filter's position after that step's update, chosen_measurements keeping
\* the candidate the resolver chose.
C7_EstimateFollowsChoice ==
    (~known_initial_pos /\ localized) =>
        \A j \in idx_loc..LastStep :
            /\ ~kf => estimated_positions[j] = chosen_measurements[j]
            /\ (kf /\ j = idx_loc) =>
                  estimated_positions[j] = chosen_measurements[j]
            /\ (kf /\ j > idx_loc /\ j = LastStep) =>
                  /\ estimated_positions[j] = kf_x.pos
                  /\ chosen_measurements[j] \in
                        {measured_positions[j][1], measured_positions[j][2]}

\* the best similarity of candidate c to a candidate of the step before n
BestSim(c, n) ==
    LET a == cos_similarity(c, measured_positions[n - 1][1])
        b == cos_similarity(c, measured_positions[n - 1][2])
    IN  IF FLess(a, b) THEN b ELSE a

\* C8: the position chosen at the transition step is defined, is one of the
\* step's two candidates, has the greatest similarity to a candidate of the
\* step before, and is measurement1 when both are equally good.
C8_TransitionChoosesBestCandidate ==
    (~known_initial_pos /\ Stepped /\ ~was_localized /\ localized) =>
        LET m1 == measured_positions[LastStep][1]
            m2 == measured_positions[LastStep][2]
            c == chosen_measurements[LastStep]
        IN  /\ ~Undefined(c)
            /\ c \in {m1, m2}
            /\ BestSim(c, LastStep).k = "num"
            /\ ~FLess(BestSim(c, LastStep), BestSim(m1, LastStep))
            /\ ~FLess(BestSim(c, LastStep), BestSim(m2, LastStep))
            /\ ~FLess(BestSim(m1, LastStep), BestSim(m2, LastStep)) => c = m1

\* C9: for r > 0 and v # 0 both candidates lie at distance r from the
\* anchor, and the second is the mirror image of the first across the line
\* through the anchor along v.
C9_CandidatesOnCircleAndMirrored ==
    (probe.phase = "out" /\ probe.r > 0 /\ Norm(probe.v) # 0) =>
        LET v == probe.v
            p1 == Vec(probe.cand[1].x - probe.anchor.x, probe.cand[1].y - probe.anchor.y)
            p2 == Vec(probe.cand[2].x - probe.anchor.x, probe.cand[2].y - probe.anchor.y)
        IN  /\ IsNum(probe.cand[1]) /\ IsNum(probe.cand[2])
            /\ Dot(p1, p1) = (Unit * probe.r) * (Unit * probe.r)
            /\ Dot(p2, p2) = (Unit * probe.r) * (Unit * probe.r)
            /\ Dot(v, v) * p2.x = 2 * Dot(p1, v) * v.x - Dot(v, v) * p1.x
            /\ Dot(v, v) * p2.y = 2 * Dot(p1, v) * v.y - Dot(v, v) * p1.y

\* C9 witness: two distinct candidates around an anchor off the origin, for
\* a velocity off the axes and a range rate strictly inside (-|v|, |v|).
C9_Witness ==
    /\ probe.phase = "out" /\ probe.r > 0
    /\ probe.v = Vec(-4, 3) /\ probe.dr = 3
    /\ probe.anchor # Zero2
    /\ probe.cand[1] # probe.cand[2]

\* C10: whenever run calls kf.predict or kf.update, run has assigned kf.x
\* before.
C10_FilterInitializedBeforeUse ==
    (kf /\ \E n \in 1..Len(kf_calls) : kf_calls[n] \in {"predict", "update"})
        => kf_x_set

\* ------------------------------------------- runs that no exception ends
\* The transition is taken at the least trigger step and idx_loc stays
\* there, in every state no exception has led to.
NoException_TransitionAtFirstTriggerStep ==
    pc # "raised" => C2_TransitionAtFirstTriggerStep

\* The filter schedule holds in every state no exception has led to.
NoException_FilterSchedule ==
    pc # "raised" => C4_FilterSchedule

\* Estimate and choice agree in every state no exception has led to.
NoException_EstimateFollowsChoice ==
    pc # "raised" => C7_EstimateFollowsChoice

\* The transition's choice is the best candidate whenever the ranges of the
\* transition step and of the step before are positive.
PositiveRange_TransitionChoosesBestCandidate ==
    (Stepped /\ filtered_r[LastStep + 1] > 0 /\ filtered_r[LastStep] > 0)
        => C8_TransitionChoosesBestCandidate

\* With known_initial_pos = False the filter is used only after the
\* transition has assigned kf.x; with known_initial_pos = True run never
\* assigns kf.x.
UnknownStart_FilterInitializedBeforeUse ==
    /\ ~known_initial_pos => C10_FilterInitializedBeforeUse
    /\ known_initial_pos => ~kf_x_set

====
